---- MODULE Spec2Model ----
(***************************************************************************)
(* A model of typist.py: the marker-table loader (get_markers), the        *)
(* expression loader and normalizer (cpm_normalization, get_expressions), *)
(* the predictor (get_predictions) and the pipeline of main().            *)
(*                                                                         *)
(* Numbers.  Every number the program computes with is a Python float     *)
(* (float(row[col]), +=, sum(), /).  A float is modelled as a binary      *)
(* floating-point number with Precision significant bits and              *)
(* round-to-nearest, ties-to-even, written as a reduced fraction <<n, d>> *)
(* whose denominator is a power of two.  A cell of an input file is its   *)
(* decimal text, written as the fraction <<n, d>> it denotes ("0.1" is    *)
(* <<1, 10>>); ParseFloat rounds it to the nearest float.                 *)
(*                                                                         *)
(* Dictionaries.  A Python dict is modelled as a sequence of <<key,       *)
(* value>> pairs with distinct keys, in insertion order (the order in     *)
(* which the program iterates over it).                                   *)
(***************************************************************************)
EXTENDS Integers, Sequences, FiniteSets, TLC

VARIABLES
    mheader,        \* header row of the marker file
    mrows,          \* data rows of the marker file: [gene, cells]
    eheader,        \* header row of the expression file
    erows,          \* data rows of the expression file: [gene, cells]
    min_expr,       \* args.min_expression (a float)
    cpm_norm,       \* args.cpm_normalization
    average_filter, \* args.average_filter
    pc,             \* the stage main() has reached
    err,            \* the exception that ended the run, or "none"
    markers,        \* dict gene -> dict category -> weight
    max_score,      \* dict column name -> float
    categ,          \* list of category names
    expressions,    \* dict sample -> dict gene -> value
    samples,        \* list of sample names
    predicts,       \* dict sample -> dict category -> score
    si,             \* number of samples get_predictions has finished
    log,            \* samples named by logging.error, in order
    output,         \* rows written to the output file
    passes          \* number of binarization passes applied to expressions

vars == <<mheader, mrows, eheader, erows, min_expr, cpm_norm, average_filter,
          pc, err, markers, max_score, categ, expressions, samples, predicts,
          si, log, output, passes>>

\* ------------------------------------------------------------------ bounds
\* Significant bits of a float (a Python float has 53; the rounding rule is
\* the same).
Precision == 5
\* Largest number of data rows in the marker file.
MaxMarkerRows == 2
\* Largest number of data rows in the expression file.
MaxExprRows == 2
\* Largest number of genes of a sample in the binarization-only runs.
MaxGenes == 3

\* ------------------------------------------------------------------ floats
RECURSIVE Pow2(_)
Pow2(k) == IF k <= 0 THEN 1 ELSE 2 * Pow2(k - 1)

Zero == <<0, 1>>
One == <<1, 1>>

\* The bounds of a significand: Least <= m < Most.
Least == Pow2(Precision - 1)
Most == Pow2(Precision)

RECURSIVE Reduce(_, _)
\* The fraction n / d (d a power of two) in lowest terms.
Reduce(n, d) ==
    IF n = 0 THEN Zero
    ELSE IF d > 1 /\ n % 2 = 0 THEN Reduce(n \div 2, d \div 2)
    ELSE <<n, d>>

RECURSIVE Scale(_, _, _, _)
\* n / d scaled by a power of two into [Least, Most): <<n', d', up, down>>
\* with n / d = (n' / d') * up / down.
Scale(n, d, up, down) ==
    IF n >= Most * d THEN Scale(n, 2 * d, 2 * up, down)
    ELSE IF n < Least * d THEN Scale(2 * n, d, up, 2 * down)
    ELSE <<n, d, up, down>>

\* The float nearest to a / b (a >= 0, b > 0), ties to the even significand.
RoundRat(a, b) ==
    IF a = 0 THEN Zero
    ELSE
      LET s == Scale(a, b, 1, 1)
          q == s[1] \div s[2]
          r == s[1] % s[2]
          m == IF 2 * r > s[2] \/ (2 * r = s[2] /\ q % 2 = 1) THEN q + 1 ELSE q
      IN  Reduce(m * s[3], s[4])

\* float(text)
ParseFloat(cell) == RoundRat(cell[1], cell[2])

\* x + y
FAdd(x, y) == RoundRat(x[1] * y[2] + y[1] * x[2], x[2] * y[2])

\* x / y, y # 0
FDiv(x, y) == RoundRat(x[1] * y[2], x[2] * y[1])

\* x < y
FLess(x, y) == x[1] * y[2] < y[1] * x[2]

\* x >= y
FGeq(x, y) == ~FLess(x, y)

\* float(n) of a small non-negative integer
FromInt(n) == RoundRat(n, 1)

\* ------------------------------------------------------------------ dicts
Keys(d) == {d[i][1] : i \in DOMAIN d}

Has(d, k) == k \in Keys(d)

Get(d, k) == d[CHOOSE i \in DOMAIN d : d[i][1] = k][2]

\* d[k] = v: an existing key keeps its place, a new key goes last.
Put(d, k, v) ==
    IF Has(d, k)
    THEN [i \in DOMAIN d |-> IF d[i][1] = k THEN <<k, v>> ELSE d[i]]
    ELSE Append(d, <<k, v>>)

\* list(d.values())
Values(d) == [i \in DOMAIN d |-> d[i][2]]


\* PyDiv with a zero divisor coerced to the result 0.
PyDivCoerced(x, y) ==
    IF y = Zero
    THEN [err |-> "none", val |-> Zero]
    ELSE [err |-> "none", val |-> FDiv(x, y)]

\* x / y as Python evaluates it: a zero divisor raises ZeroDivisionError.
PyDiv(x, y) ==
    IF y = Zero
    THEN [err |-> "ZeroDivisionError", val |-> Zero]
    ELSE [err |-> "none", val |-> FDiv(x, y)]

RECURSIVE SumFrom(_, _, _)
SumFrom(s, i, acc) ==
    IF i > Len(s) THEN acc ELSE SumFrom(s, i + 1, FAdd(acc, s[i]))

\* sum(values): the left-to-right sum, starting from 0
PySum(s) == SumFrom(s, 1, Zero)

\* ------------------------------------------------------------ get_markers
RECURSIVE InitMaxScore(_, _, _)
\* for col in colnames: max_score[col] = 0
InitMaxScore(colnames, i, ms) ==
    IF i > Len(colnames) THEN ms
    ELSE InitMaxScore(colnames, i + 1, Put(ms, colnames[i], Zero))

RECURSIVE MarkerCells(_, _, _, _)
\* for col in range(1, len(row)): the weight goes into markers[gen] and is
\* added to max_score, under the name of the header cell above it.
MarkerCells(st, row, colnames, col) ==
    IF col > Len(row.cells) THEN st
    ELSE
      LET name == colnames[col + 1]
          w == ParseFloat(row.cells[col])
      IN  MarkerCells(
            [markers |-> Put(st.markers, row.gene,
                             Put(Get(st.markers, row.gene), name, w)),
             max_score |-> Put(st.max_score, name,
                               FAdd(Get(st.max_score, name), w))],
            row, colnames, col + 1)

\* One data row: markers[gen] = {} and then its cells.
MarkerRow(st, row, colnames) ==
    MarkerCells([markers |-> Put(st.markers, row.gene, <<>>),
                 max_score |-> st.max_score],
                row, colnames, 1)

RECURSIVE MarkerRows(_, _, _, _)
MarkerRows(st, rows, colnames, i) ==
    IF i > Len(rows) THEN st
    ELSE MarkerRows(MarkerRow(st, rows[i], colnames), rows, colnames, i + 1)

\* get_markers(file, delim): markers, max_score and the category names.
get_markers(header, rows) ==
    LET st == MarkerRows([markers |-> <<>>,
                          max_score |-> InitMaxScore(header, 1, <<>>)],
                         rows, header, 1)
    IN  [markers |-> st.markers, max_score |-> st.max_score,
         colnames |-> Tail(header)]

\* -------------------------------------------------------- get_expressions
RECURSIVE InitSamples(_, _, _)
\* for col in range(1, len(colnames)): expressions[colnames[col]] = {}
InitSamples(colnames, i, ex) ==
    IF i > Len(colnames) THEN ex
    ELSE InitSamples(colnames, i + 1, Put(ex, colnames[i], <<>>))

RECURSIVE ExprCells(_, _, _, _)
\* for col in range(1, len(row)): expressions[colnames[col]][gen] = float(.)
ExprCells(ex, row, colnames, col) ==
    IF col > Len(row.cells) THEN ex
    ELSE
      LET name == colnames[col + 1]
      IN  ExprCells(Put(ex, name, Put(Get(ex, name), row.gene,
                                       ParseFloat(row.cells[col]))),
                    row, colnames, col + 1)

RECURSIVE ExprRows(_, _, _, _)
ExprRows(ex, rows, colnames, i) ==
    IF i > Len(rows) THEN ex
    ELSE ExprRows(ExprCells(ex, rows[i], colnames, 1), rows, colnames, i + 1)

\* The reading part of get_expressions: the raw matrix and the sample names.
read_expressions(header, rows) ==
    [expressions |-> ExprRows(InitSamples(header, 2, <<>>), rows, header, 1),
     colnames |-> Tail(header)]

RECURSIVE CpmFrom(_, _)
\* cpm_normalization(expressions).  cpm is created empty and cpm[sample] is
\* never created, so the first assignment cpm[sample][gene] = ... raises
\* KeyError, after its right-hand side was evaluated: that division raises
\* ZeroDivisionError first when the sample's total is zero.  A sample with no
\* gene assigns nothing.
CpmFrom(ex, i) ==
    IF i > Len(ex) THEN [err |-> "none", cpm |-> <<>>]
    ELSE
      LET total == PySum(Values(ex[i][2]))
      IN  IF Len(ex[i][2]) = 0 THEN CpmFrom(ex, i + 1)
          ELSE IF PyDiv(ex[i][2][1][2], total).err # "none"
          THEN [err |-> "ZeroDivisionError", cpm |-> <<>>]
          ELSE [err |-> "KeyError", cpm |-> <<>>]

cpm_normalization(ex) == CpmFrom(ex, 1)

\* A value against the cut: below it 0, otherwise 1.
Binarize(v, cut) == IF FLess(v, cut) THEN Zero ELSE One

\* One sample's genes against one cut.
BinarizeSample(genes, cut) ==
    [i \in DOMAIN genes |-> <<genes[i][1], Binarize(genes[i][2], cut)>>]

RECURSIVE AverageFrom(_, _)
\* The average-filter loop, in place: a sample with no gene divides by zero
\* and leaves the samples before it binarized.
AverageFrom(ex, i) ==
    IF i > Len(ex) THEN [err |-> "none", expressions |-> ex]
    ELSE
      LET genes == ex[i][2]
          avg == PyDiv(PySum(Values(genes)), FromInt(Len(genes)))
      IN  IF avg.err # "none" THEN [err |-> avg.err, expressions |-> ex]
          ELSE AverageFrom(
                 [ex EXCEPT ![i] = <<ex[i][1], BinarizeSample(genes, avg.val)>>],
                 i + 1)

average_binarize(ex) == AverageFrom(ex, 1)

\* The minimum-expression loop, in place.
threshold_binarize(ex, cut) ==
    [err |-> "none",
     expressions |-> [i \in DOMAIN ex |->
                        <<ex[i][1], BinarizeSample(ex[i][2], cut)>>]]


\* -------------------------------------------------------- get_predictions
RECURSIVE InitScores(_, _, _)
\* for category in categ: predicts[sample][category] = 0
InitScores(cats, j, acc) ==
    IF j > Len(cats) THEN acc
    ELSE InitScores(cats, j + 1, Put(acc, cats[j], Zero))

\* Gate with > in the place of >=.
GateStrict(call, w) == FLess(w, call)

\* The gate of line 151: the binary call against the marker weight.
Gate(call, w) == FGeq(call, w)

RECURSIVE CategoryLoop(_, _, _, _, _)
\* for category in categ: if expressions[sample][gene] >=
\* markers[gene][category]: predicts[sample][category] += the weight.
\* markers[gene][category] raises KeyError when the gene's row was short.
CategoryLoop(acc, weights, call, cats, j) ==
    IF j > Len(cats) THEN [err |-> "none", acc |-> acc]
    ELSE IF ~Has(weights, cats[j]) THEN [err |-> "KeyError", acc |-> acc]
    ELSE
      LET w == Get(weights, cats[j])
      IN  CategoryLoop(
            IF Gate(call, w)
            THEN Put(acc, cats[j], FAdd(Get(acc, cats[j]), w))
            ELSE acc,
            weights, call, cats, j + 1)

RECURSIVE GeneLoop(_, _, _, _, _, _)
\* for gene in expressions[sample]: if gene in markers: total_markers += 1
\* and the category loop.
GeneLoop(genes, i, acc, total, mk, cats) ==
    IF i > Len(genes) THEN [err |-> "none", acc |-> acc, total |-> total]
    ELSE IF ~Has(mk, genes[i][1])
    THEN GeneLoop(genes, i + 1, acc, total, mk, cats)
    ELSE
      LET r == CategoryLoop(acc, Get(mk, genes[i][1]), genes[i][2], cats, 1)
      IN  IF r.err # "none"
          THEN [err |-> r.err, acc |-> r.acc, total |-> total + 1]
          ELSE GeneLoop(genes, i + 1, r.acc, total + 1, mk, cats)

\* Line 155: the scores are divided only for a sample with a marker gene.
Divides(total) == total > 0

RECURSIVE FinalLoop(_, _, _, _, _, _)
\* for category in categ: divide by max_scores[category] when total_markers
\* is positive, else logging.error names the sample (once per category).
FinalLoop(acc, total, ms, cats, j, reports) ==
    IF j > Len(cats) THEN [err |-> "none", acc |-> acc, reports |-> reports]
    ELSE IF Divides(total)
    THEN
      LET q == PyDiv(Get(acc, cats[j]), Get(ms, cats[j]))
      IN  IF q.err # "none"
          THEN [err |-> q.err, acc |-> acc, reports |-> reports]
          ELSE FinalLoop(Put(acc, cats[j], q.val), total, ms, cats, j + 1,
                         reports)
    ELSE FinalLoop(acc, total, ms, cats, j + 1, reports + 1)

\* The body of the sample loop of get_predictions for one sample.
predict_sample(ex, sample, mk, ms, cats) ==
    IF ~Has(ex, sample)
    THEN [err |-> "KeyError", acc |-> InitScores(cats, 1, <<>>), reports |-> 0]
    ELSE
      LET g == GeneLoop(Get(ex, sample), 1, InitScores(cats, 1, <<>>), 0,
                        mk, cats)
      IN  IF g.err # "none"
          THEN [err |-> g.err, acc |-> g.acc, reports |-> 0]
          ELSE FinalLoop(g.acc, g.total, ms, cats, 1, 0)

\* n copies of x appended to s
RECURSIVE AppendN(_, _, _)
AppendN(s, x, n) == IF n = 0 THEN s ELSE AppendN(Append(s, x), x, n - 1)

\* ------------------------------------------------------------------ main
\* Lines 197-202: the header row, then one row per key of predictions.
output_rows(pr, cats) ==
    <<<<"Sample">> \o cats>> \o
    [i \in DOMAIN pr |->
        <<pr[i][1]>> \o [j \in DOMAIN cats |-> Get(pr[i][2], cats[j])]]

\* Line 102: the CPM step runs between reading and binarizing, when asked for.
ReadyToBinarize == pc = IF cpm_norm THEN "normalized" ELSE "read"

\* ReadyToWrite without waiting for the sample loop to end.
ReadyToWriteEarly == pc \in {"binarized", "predicted"}

\* Line 195: the output file is opened once get_predictions has returned.
ReadyToWrite == pc = "predicted"

Fail(e) == pc' = "failed" /\ err' = e

Inputs == <<mheader, mrows, eheader, erows, min_expr, cpm_norm, average_filter>>

\* Line 188.
LoadMarkers ==
    /\ pc = "start"
    /\ LET r == get_markers(mheader, mrows)
       IN  /\ markers' = r.markers
           /\ max_score' = r.max_score
           /\ categ' = r.colnames
    /\ pc' = "markers"
    /\ UNCHANGED <<Inputs, err, expressions, samples, predicts, si, log,
                   output, passes>>

\* Lines 83-100.
ReadExpressions ==
    /\ pc = "markers"
    /\ LET r == read_expressions(eheader, erows)
       IN  /\ expressions' = r.expressions
           /\ samples' = r.colnames
    /\ pc' = "read"
    /\ UNCHANGED <<Inputs, err, markers, max_score, categ, predicts, si, log,
                   output, passes>>

\* Lines 102-103.
CpmNormalize ==
    /\ pc = "read"
    /\ cpm_norm
    /\ LET r == cpm_normalization(expressions)
       IN  IF r.err # "none"
           THEN Fail(r.err) /\ UNCHANGED expressions
           ELSE pc' = "normalized" /\ expressions' = r.cpm /\ UNCHANGED err
    /\ UNCHANGED <<Inputs, markers, max_score, categ, samples, predicts, si,
                   log, output, passes>>

\* Lines 105-114.
AverageFilter ==
    /\ ReadyToBinarize
    /\ average_filter
    /\ LET r == average_binarize(expressions)
       IN  /\ expressions' = r.expressions
           /\ IF r.err # "none"
              THEN Fail(r.err) /\ UNCHANGED passes
              ELSE pc' = "binarized" /\ passes' = 1 /\ UNCHANGED err
    /\ UNCHANGED <<Inputs, markers, max_score, categ, samples, predicts, si,
                   log, output>>

\* Lines 116-124.
ThresholdFilter ==
    /\ ReadyToBinarize
    /\ ~average_filter
    /\ expressions' = threshold_binarize(expressions, min_expr).expressions
    /\ pc' = "binarized"
    /\ passes' = 1
    /\ UNCHANGED <<Inputs, err, markers, max_score, categ, samples, predicts,
                   si, log, output>>

\* Lines 142-158: one turn of the sample loop.
PredictSample ==
    /\ pc = "binarized"
    /\ si < Len(samples)
    /\ LET sample == samples[si + 1]
           r == predict_sample(expressions, sample, markers, max_score, categ)
       IN  /\ predicts' = Put(predicts, sample, r.acc)
           /\ log' = AppendN(log, sample, r.reports)
           /\ IF r.err # "none"
              THEN Fail(r.err) /\ UNCHANGED si
              ELSE si' = si + 1 /\ UNCHANGED <<pc, err>>
    /\ UNCHANGED <<Inputs, markers, max_score, categ, expressions, samples,
                   output, passes>>

\* Line 159: return predicts.
ReturnPredictions ==
    /\ pc = "binarized"
    /\ si = Len(samples)
    /\ pc' = "predicted"
    /\ UNCHANGED <<Inputs, err, markers, max_score, categ, expressions,
                   samples, predicts, si, log, output, passes>>

\* Lines 194-202.
WriteOutput ==
    /\ ReadyToWrite
    /\ output' = output_rows(predicts, categ)
    /\ pc' = "done"
    /\ UNCHANGED <<Inputs, err, markers, max_score, categ, expressions,
                   samples, predicts, si, log, passes>>

Next ==
    \/ LoadMarkers
    \/ ReadExpressions
    \/ CpmNormalize
    \/ AverageFilter
    \/ ThresholdFilter
    \/ PredictSample
    \/ ReturnPredictions
    \/ WriteOutput


\* ---------------------------------------------------------------- inputs
SeqsUpTo(S, n) == UNION {[1 .. k -> S] : k \in 0 .. n}

Row(g, cs) == [gene |-> g, cells |-> cs]

\* Data rows of a marker file under the header Gene, CatA, CatB; a row may
\* stop short of the header.
MarkerRowSet ==
    { Row("G1", << <<1, 2>>, <<0, 1>> >>),
      Row("G1", << <<1, 2>> >>),
      Row("G2", << <<0, 1>>, <<1, 2>> >>),
      Row("G2", << <<1, 1>>, <<2, 1>> >>) }

\* Data rows of an expression file with one sample, and with two.
ExprRowSet(header) ==
    IF Len(header) = 2
    THEN { Row("G1", << <<10, 1>> >>),
           Row("G2", << <<1, 1>> >>),
           Row("G3", << <<10, 1>> >>),
           Row("G1", << <<0, 1>> >>) }
    ELSE { Row("G1", << <<10, 1>>, <<0, 1>> >>),
           Row("G1", << <<10, 1>> >>),
           Row("G3", << <<1, 1>>, <<1, 1>> >>),
           Row("G2", << <<1, 1>>, <<10, 1>> >>) }

\* The state main() starts from, the input files and arguments aside.
Fresh ==
    /\ pc = "start"
    /\ err = "none"
    /\ markers = <<>>
    /\ max_score = <<>>
    /\ categ = <<>>
    /\ expressions = <<>>
    /\ samples = <<>>
    /\ predicts = <<>>
    /\ si = 0
    /\ log = <<>>
    /\ output = <<>>
    /\ passes = 0

Init ==
    /\ mheader = <<"Gene", "CatA", "CatB">>
    /\ mrows \in SeqsUpTo(MarkerRowSet, MaxMarkerRows)
    /\ eheader \in {<<"Gene", "S1">>, <<"Gene", "S1", "S2">>}
    /\ erows \in SeqsUpTo(ExprRowSet(eheader), MaxExprRows)
    /\ min_expr = ParseFloat(<<5, 1>>)
    /\ cpm_norm \in BOOLEAN
    /\ average_filter \in BOOLEAN
    /\ Fresh

Spec == Init /\ [][Next]_vars


\* ------------------------------------------------- scoring with three genes
ScoreGenes == {"G1", "G2", "G3"}

\* Weight cells "0.1", "0.2", "0.3".
ScoreCells == {<<1, 10>>, <<2, 10>>, <<3, 10>>}

\* Three full marker rows, one per gene, in any order, under one category;
\* one sample with the three genes in the order G1, G2, G3.
InitScore ==
    /\ mheader = <<"Gene", "CatA">>
    /\ mrows \in {t \in [1 .. 3 -> {Row(g, <<c>>) : g \in ScoreGenes,
                                                   c \in ScoreCells}] :
                    \A i, j \in 1 .. 3 : i # j => t[i].gene # t[j].gene}
    /\ eheader = <<"Gene", "S1">>
    /\ erows \in {<<Row("G1", <<a>>), Row("G2", <<b>>), Row("G3", <<c>>)>> :
                    a \in {<<10, 1>>, <<1, 1>>}, b \in {<<10, 1>>, <<1, 1>>},
                    c \in {<<10, 1>>, <<1, 1>>}}
    /\ min_expr = ParseFloat(<<5, 1>>)
    /\ cpm_norm \in BOOLEAN
    /\ average_filter \in BOOLEAN
    /\ Fresh

SpecScore == InitScore /\ [][Next]_vars

\* --------------------------------------------- the average filter, twice
\* Value cells "0", "0.1", "1", "10".
AverageCells == {<<0, 1>>, <<1, 10>>, <<1, 1>>, <<10, 1>>}

GeneName(i) == <<"G1", "G2", "G3", "G4", "G5">>[i]

\* One sample with 1 .. MaxGenes genes, binarized by the average filter.
InitAverage ==
    /\ mheader = <<"Gene", "CatA">>
    /\ mrows = <<>>
    /\ eheader = <<"Gene", "S1">>
    /\ \E k \in 1 .. MaxGenes :
         erows \in {[i \in 1 .. k |-> Row(GeneName(i), <<v[i]>>)] :
                      v \in [1 .. k -> AverageCells]}
    /\ min_expr = Zero
    /\ cpm_norm = FALSE
    /\ average_filter = TRUE
    /\ Fresh

\* The loop of lines 107-113 run once more, on its own output.
ReapplyAverage ==
    /\ pc = "binarized"
    /\ average_filter
    /\ passes = 1
    /\ LET r == average_binarize(expressions)
       IN  /\ r.err = "none"
           /\ expressions' = r.expressions
    /\ passes' = 2
    /\ UNCHANGED <<Inputs, pc, err, markers, max_score, categ, samples,
                   predicts, si, log, output>>

NextAverage ==
    \/ LoadMarkers
    \/ ReadExpressions
    \/ AverageFilter
    \/ ReapplyAverage

SpecAverage == InitAverage /\ [][NextAverage]_vars


\* ------------------------------------------------------------ properties
Range(s) == {s[i] : i \in DOMAIN s}

\* The raw expression matrix, as read from the expression file.
RawMatrix == read_expressions(eheader, erows).expressions

\* The sample has a gene that is a key of the marker table.
Matched(s) ==
    /\ Has(expressions, s)
    /\ Keys(Get(expressions, s)) \cap Keys(markers) # {}

\* The samples whose turn of the sample loop has ended without an error.
Finished == {samples[i] : i \in 1 .. si}

\* get_predictions has returned.
Returned == pc \in {"predicted", "done"}

\* The run failed inside get_predictions.
FailedPredicting == pc = "failed" /\ passes = 1

Score(s, c) == Get(Get(predicts, s), c)

SomeZeroMax == \E c \in Range(categ) : Get(max_score, c) = Zero

\* C1: every score of a sample with a matched marker lies in [0, 1] (the
\* weights of the marker tables are all non-negative).
C1_ScoresInUnitInterval ==
    \A s \in Finished :
      Matched(s) =>
        \A c \in Range(categ) :
          FGeq(Score(s, c), Zero) /\ FGeq(One, Score(s, c))

\* The weights the claim sums for sample s and category c: those of the
\* sample's genes that are marker keys and whose call is >= the weight.
ClaimedWeights(s, c) ==
    LET genes == Get(expressions, s)
        Counts(g) == /\ Has(markers, g[1])
                     /\ FGeq(g[2], Get(Get(markers, g[1]), c))
        chosen == SelectSeq(genes, Counts)
    IN  [i \in DOMAIN chosen |-> Get(Get(markers, chosen[i][1]), c)]

\* The files and arguments of the concrete scenario of the specification.
Scenario ==
    /\ mheader = <<"Gene", "CatA", "CatB">>
    /\ mrows = <<Row("G1", << <<1, 2>>, <<0, 1>> >>),
                 Row("G2", << <<0, 1>>, <<1, 2>> >>)>>
    /\ eheader = <<"Gene", "S1">>
    /\ erows = <<Row("G1", << <<10, 1>> >>), Row("G2", << <<1, 1>> >>)>>
    /\ min_expr = ParseFloat(<<5, 1>>)
    /\ ~cpm_norm
    /\ ~average_filter

\* C2: for a sample with a matched marker and a category of positive
\* max_score, the score is the sum of the weights of the sample's marker
\* genes whose call is >= the weight, divided by max_score; and the concrete
\* scenario ends with the row S1, 1.0, 0.0.
C2_ScoreIsGatedSumOverMax ==
    /\ \A s \in Finished :
         Matched(s) =>
           \A c \in Range(categ) :
             FLess(Zero, Get(max_score, c)) =>
               Score(s, c) = FDiv(PySum(ClaimedWeights(s, c)),
                                  Get(max_score, c))
    /\ (Scenario /\ pc = "done") =>
         output = << <<"Sample", "CatA", "CatB">>, <<"S1", One, Zero>> >>

\* The scenario has run to its end, and a weight was gated out.
C2_Witness ==
    /\ Scenario
    /\ pc = "done"
    /\ Matched("S1")
    /\ Score("S1", "CatA") = One

\* C3: a sample without a marker gene gets the score 0 in every category
\* and is reported, and the run does not fail on it.
C3_UnmatchedSampleScoresZero ==
    /\ \A s \in Finished :
         ~Matched(s) =>
           /\ \A c \in Range(categ) : Score(s, c) = Zero
           /\ s \in Range(log)
    /\ FailedPredicting => Matched(samples[si + 1])

\* C4: get_predictions never gets past a sample with a matched marker while
\* some category has max_score 0, so no result holds a score for that pair.
C4_ZeroMaxScoreIsAnError ==
    /\ \A s \in Finished : ~(Matched(s) /\ SomeZeroMax)
    /\ Returned => \A s \in Range(samples) : ~(Matched(s) /\ SomeZeroMax)

\* The division by a zero max_score has ended the run.
C4_Witness ==
    /\ FailedPredicting
    /\ err = "ZeroDivisionError"
    /\ Matched(samples[si + 1])
    /\ SomeZeroMax

\* Every sample of the raw matrix has a non-zero total.
TotalsNonZero ==
    \A i \in DOMAIN RawMatrix : PySum(Values(RawMatrix[i][2])) # Zero

\* Some sample of the raw matrix has values, and they sum to zero.
SomeTotalZero ==
    \E i \in DOMAIN RawMatrix :
      /\ Len(RawMatrix[i][2]) > 0
      /\ PySum(Values(RawMatrix[i][2])) = Zero

\* The run is past the CPM step.
PastCpm == pc \notin {"start", "markers", "read"}

\* C5: with CPM requested and every total non-zero, the CPM step ends
\* without an error and keeps the samples and their genes.
C5_CpmCompletes ==
    (cpm_norm /\ TotalsNonZero /\ PastCpm) =>
      /\ ~(pc = "failed" /\ passes = 0)
      /\ Keys(expressions) = Keys(RawMatrix)
      /\ \A s \in Keys(RawMatrix) :
           Keys(Get(expressions, s)) = Keys(Get(RawMatrix, s))

\* C6: with CPM requested and a sample whose values sum to zero, the run
\* fails with a division error and goes no further.
C6_ZeroTotalIsDivisionError ==
    (cpm_norm /\ SomeTotalZero /\ PastCpm) =>
      (pc = "failed" /\ err = "ZeroDivisionError")

\* C7: the average filter applied to its own output changes nothing.
C7_AverageFilterIsProjection ==
    passes = 2 => expressions = average_binarize(RawMatrix).expressions

\* Every data row of the marker file has a cell under every header cell.
MarkerRowsFull == \A i \in DOMAIN mrows : Len(mrows[i].cells) = Len(mheader) - 1

\* C8: after get_markers, max_score[c] is the sum of markers[g][c] over the
\* genes g of the marker mapping, duplicated gene rows included.
C8_MaxScoreIsSumOfWeights ==
    (MarkerRowsFull /\ pc # "start") =>
      \A c \in Range(categ) :
        Get(max_score, c) =
          PySum([i \in DOMAIN markers |-> Get(markers[i][2], c)])

\* Some data row of the marker file or of the expression file is shorter
\* than its header.
SomeShortRow ==
    \/ \E i \in DOMAIN mrows : Len(mrows[i].cells) < Len(mheader) - 1
    \/ \E i \in DOMAIN erows : Len(erows[i].cells) < Len(eheader) - 1

\* C9: a run over a file with a short row never completes with scores.
C9_ShortRowIsFatal == SomeShortRow => ~Returned

\* The stages in their order; a failed run has left it.
StageNumber ==
    CASE pc = "start" -> 0
      [] pc = "markers" -> 1
      [] pc = "read" -> 2
      [] pc = "normalized" -> 3
      [] pc = "binarized" -> 4
      [] pc = "predicted" -> 5
      [] pc = "done" -> 6
      [] OTHER -> 7

\* One row per sample, in the order of the expression file's header, after
\* the header row.
RowPerSample ==
    /\ Len(output) = Len(eheader)
    /\ output[1] = <<"Sample">> \o categ
    /\ \A i \in 1 .. Len(eheader) - 1 :
         /\ output[i + 1][1] = eheader[i + 1]
         /\ Len(output[i + 1]) = Len(categ) + 1
         /\ \A j \in DOMAIN categ :
              output[i + 1][j + 1] = Score(eheader[i + 1], categ[j])

\* C10: the stages run in their order, CPM (when asked for) before exactly
\* one binarization; the output is written only after every sample was
\* predicted, so a failed run has written nothing, and a finished run has
\* written one row per sample in sample order.
C10_StagesInOrder ==
    /\ [](output # <<>> => (pc = "done" /\ si = Len(samples)))
    /\ [](pc = "failed" => output = <<>>)
    /\ [](pc = "done" => RowPerSample)
    /\ [](passes <= 1)
    /\ [](StageNumber >= 4 /\ pc # "failed" => passes = 1)
    /\ [][pc' # pc =>
            \/ pc' = "failed"
            \/ StageNumber' = StageNumber + 1
            \/ (pc = "read" /\ ~cpm_norm /\ pc' = "binarized")]_vars
    /\ [][(pc = "read" /\ cpm_norm) => pc' \in {"read", "normalized", "failed"}]_vars

\* A run with a sample without a marker gene has written its output.
C10_Witness ==
    /\ pc = "done"
    /\ Len(samples) = 2
    /\ \E s \in Range(samples) : ~Matched(s) /\ s \in Range(log)
    /\ \E s \in Range(samples) : Matched(s)

====
